---- MODULE Spec2Model ----
(***************************************************************************)
(* Model of outlook_mcp_server.py: the session result cache (email_cache), *)
(* the tools that populate, read and mutate it, and the conversation       *)
(* classification of get_actionable_emails.                                *)
(*                                                                         *)
(* Python strings are sequences of one-character strings, so that          *)
(* `x in s`, s.lower() and prefixes are computed, not assumed.             *)
(* Timestamps are whole hours.                                             *)
(***************************************************************************)
EXTENDS Integers, Sequences, FiniteSets, TLC

\* email_cache: the module-level dict, ordinal -> formatted email
\* last:        the last tool call: tool, arguments, returned string,
\*              backend calls made, output entries
\* moved:       the ordinals removed by a successful move since the cache was
\*              last cleared
\* fresh:       clear_email_cache ran and nothing has been stored since
\* run:         one analysis pass of get_actionable_emails on its own: the
\*              items fetched, the clock, and the three result lists
VARIABLES email_cache, last, moved, fresh, run

vars == <<email_cache, last, moved, fresh, run>>

\* ------------------------------------------------------------------ bounds
\* Number of mail items the backend holds.
MaxItems == 3
\* Largest number of items one backend enumeration returns.
MaxFetched == 2
\* Largest number of items in the input of one classification run.
MaxThreadItems == 2

\* Largest number of characters before and after a keyword in a subject.
MaxPad == 1

\* Largest number of items in the input of one grouping run.
MaxGroupItems == 3
\* Largest follow_up_days of one briefing.
MaxFollowUp == 2
\* Largest unread-urgent count, flagged-thread count, total response delay
\* (hours) and number of answered inbound items of one load estimate.
MaxUrgent == 4
MaxFlagged == 7
MaxDelay == 50
MaxReplies == 2

\* ------------------------------------------------------- program constants
MAX_DAYS == 180
ACTIONABLE_EMAIL_MAX_DAYS == 60
\* datetime.datetime.min, the sort key of an item without a timestamp
datetime_min == 0
\* an absent (None / falsy) SentOn or ReceivedTime
NoTime == -1

\* Python None, for optional strings (no string of characters equals it)
None == <<"None">>

\* --------------------------------------------------------- Python strings
\* sub in s
Contains(s, sub) ==
    \E i \in 0..(Len(s) - Len(sub)) : SubSeq(s, i + 1, i + Len(sub)) = sub

\* The letters that str.lower() and str.upper() map to one another.
LowerLetters ==
    <<"a", "b", "c", "d", "e", "f", "g", "h", "i", "j", "k", "l", "m", 
     "n", "o", "p", "q", "r", "s", "t", "u", "v", "w", "x", "y", "z">>

UpperLetters ==
    <<"A", "B", "C", "D", "E", "F", "G", "H", "I", "J", "K", "L", "M", 
     "N", "O", "P", "Q", "R", "S", "T", "U", "V", "W", "X", "Y", "Z">>

ToLower == [c \in {UpperLetters[i] : i \in 1..26} |->
                LowerLetters[CHOOSE i \in 1..26 : UpperLetters[i] = c]]

ToUpper == [c \in {LowerLetters[i] : i \in 1..26} |->
                UpperLetters[CHOOSE i \in 1..26 : LowerLetters[i] = c]]

\* one character of str.lower()
LowerChar(c) == IF c \in DOMAIN ToLower THEN ToLower[c] ELSE c

\* s.lower()
Lower(s) == [i \in 1..Len(s) |-> LowerChar(s[i])]

\* s.upper()
Upper(s) == [i \in 1..Len(s) |-> IF s[i] \in DOMAIN ToUpper THEN ToUpper[s[i]] ELSE s[i]]

\* bool(s) of an optional string argument: None and "" are falsy
Truthy(s) == s # None /\ s # <<>>

\* -------------------------------------------------------------- the cache
\* clear_email_cache that forgets `global email_cache`: the module-level
\* dict keeps its entries.
clear_email_cache_local == email_cache

\* email_cache = {}
clear_email_cache == [k \in {} |-> 0]

\* del email_cache[k]
CacheDel(cache, k) == [j \in (DOMAIN cache) \ {k} |-> cache[j]]

\* for i, email in enumerate(emails, 1): email_cache[i] = email
CacheAll(cache, emails) ==
    [j \in (DOMAIN cache) \cup (1..Len(emails)) |->
        IF j \in 1..Len(emails) THEN emails[j] ELSE cache[j]]

\* ------------------------------------------------------------ the backend
\* The mail items the backend holds, by EntryID.
Items == 1..MaxItems

\* get_my_email_address returns the address lower-cased
MY_EMAIL == <<"m", "e">>

\* The clock of the tool-surface runs (hours).
NowHours == 5 * 24

\* The backend's MailItem with EntryID i: the fields the tools read.
\* InSent: the item's Parent is the Sent Items folder.
MailItem(i) ==
    CASE i = 1 -> [EntryID |-> 1, ConversationID |-> "c1", ConvReadable |-> TRUE,
                   SenderEmailAddress |-> <<"b", "@", "x">>, SenderName |-> <<"B", "o", "s", "s">>,
                   Subject |-> <<"h", "i">>, Body |-> <<"o", "k", "?">>, UnRead |-> TRUE,
                   Categories |-> <<>>, FlagStatus |-> 0, InSent |-> FALSE,
                   SentOn |-> NowHours - 4, ReceivedTime |-> NowHours - 3]
      [] i = 2 -> [EntryID |-> 2, ConversationID |-> "c1", ConvReadable |-> TRUE,
                   SenderEmailAddress |-> <<"M", "e">>, SenderName |-> <<"M", "e">>,
                   Subject |-> <<"h", "i">>, Body |-> <<"s", "o", "?">>, UnRead |-> FALSE,
                   Categories |-> <<>>, FlagStatus |-> 0, InSent |-> TRUE,
                   SentOn |-> NowHours - 72, ReceivedTime |-> NowHours - 72]
      [] i = 3 -> [EntryID |-> 3, ConversationID |-> "c2", ConvReadable |-> TRUE,
                   SenderEmailAddress |-> <<"o", "@", "x">>, SenderName |-> <<"O">>,
                   Subject |-> <<"s">>, Body |-> <<"s", "o", "?">>, UnRead |-> FALSE,
                   Categories |-> <<>>, FlagStatus |-> 2, InSent |-> FALSE,
                   SentOn |-> NowHours - 30, ReceivedTime |-> NowHours - 30]
      [] i = 4 -> [EntryID |-> 4, ConversationID |-> "c2", ConvReadable |-> TRUE,
                   SenderEmailAddress |-> <<"m", "e">>, SenderName |-> <<"M", "e">>,
                   Subject |-> <<"s">>, Body |-> <<"o", "k">>, UnRead |-> FALSE,
                   Categories |-> <<>>, FlagStatus |-> 0, InSent |-> TRUE,
                   SentOn |-> NowHours - 1, ReceivedTime |-> NowHours - 1]
      [] OTHER -> [EntryID |-> i, ConversationID |-> "c3", ConvReadable |-> TRUE,
                   SenderEmailAddress |-> <<"o", "@", "x">>, SenderName |-> <<"O">>,
                   Subject |-> <<"s">>, Body |-> <<"n", "o">>, UnRead |-> TRUE,
                   Categories |-> <<>>, FlagStatus |-> 0, InSent |-> FALSE,
                   SentOn |-> NowHours - 2, ReceivedTime |-> NowHours - 2]

\* What one enumeration of a folder (or of a Restrict result) can return:
\* any duplicate-free sequence of at most MaxFetched items.
Fetches ==
    UNION {{s \in [1..n -> Items] : \A a, b \in 1..n : a # b => s[a] # s[b]} :
           n \in 0..MaxFetched}

\* format_email: the dictionary built from one item
format_email(item) ==
    [id |-> item.EntryID,
     conversation_id |-> item.ConversationID,
     subject |-> item.Subject,
     sender |-> item.SenderName,
     sender_email |-> item.SenderEmailAddress,
     received_time |-> IF item.ReceivedTime # NoTime THEN item.ReceivedTime \div 24 ELSE NoTime,
     sent_time |-> IF item.SentOn # NoTime THEN item.SentOn ELSE NoTime,
     is_sent_item |-> item.InSent,
     body |-> item.Body,
     unread |-> item.UnRead]

\* Stable ascending sort, as list.sort(key=...): keys[i] is the key of s[i];
\* position by key, ties by original position.
StableSort(s, keys) ==
    LET pos(i) == 1 + Cardinality({j \in 1..Len(s) :
                        \/ keys[j] < keys[i]
                        \/ (keys[j] = keys[i] /\ j < i)})
    IN  [p \in 1..Len(s) |-> s[CHOOSE i \in 1..Len(s) : pos(i) = p]]

\* Stable descending sort, as sorted(..., reverse=True): ties keep their
\* original order.
StableSortReverse(s, keys) ==
    LET pos(i) == 1 + Cardinality({j \in 1..Len(s) :
                        \/ keys[j] > keys[i]
                        \/ (keys[j] = keys[i] /\ j < i)})
    IN  [p \in 1..Len(s) |-> s[CHOOSE i \in 1..Len(s) : pos(i) = p]]

\* get_emails_from_folder without search term: the folder's items sorted
\* by ReceivedTime, newest first; those with a ReceivedTime not older than
\* the threshold, formatted; an item whose processing raises is skipped.
get_emails_from_folder(fetched, days, now, fmt_fail) ==
    LET folder_items == StableSortReverse(fetched,
                            [k \in 1..Len(fetched) |-> MailItem(fetched[k]).ReceivedTime])
        keep == SelectSeq(folder_items, LAMBDA i :
                    /\ MailItem(i).ReceivedTime # NoTime
                    /\ ~(MailItem(i).ReceivedTime < now - days * 24)
                    /\ i # fmt_fail)
    IN  [k \in 1..Len(keep) |-> format_email(MailItem(keep[k]))]

\* ---------------------------------------------------- conversation threads
\* A grouping loop that keeps the items whose ConversationID cannot be read.
Grouped_keep_unreadable(all_items) == all_items

\* The items whose ConversationID can be read (the others are skipped).
Grouped(all_items) == SelectSeq(all_items, LAMBDA it : it.ConvReadable)

\* The keys of the dict `conversations`, in insertion order.
ConversationKeys(all_items) ==
    LET g == Grouped(all_items)
        firsts == SelectSeq([i \in 1..Len(g) |-> i],
                      LAMBDA i : \A j \in 1..(i - 1) :
                          g[j].ConversationID # g[i].ConversationID)
    IN  [k \in 1..Len(firsts) |-> g[firsts[k]].ConversationID]

\* conversations[conv_id] before sorting: its items in enumeration order.
ConversationItems(all_items, conv_id) ==
    SelectSeq(Grouped(all_items), LAMBDA it : it.ConversationID = conv_id)

\* get_item_datetime_for_sorting (get_actionable_emails)
get_item_datetime_for_sorting(item) ==
    IF item.SentOn # NoTime THEN item.SentOn
    ELSE IF item.ReceivedTime # NoTime THEN item.ReceivedTime
    ELSE datetime_min

\* get_item_datetime (generate_morning_briefing)
get_item_datetime(item) ==
    IF item.ReceivedTime # NoTime THEN item.ReceivedTime
    ELSE IF item.SentOn # NoTime THEN item.SentOn
    ELSE datetime_min

\* get_actionable_emails: the sorted threads, one per conversation key.
ActionableThreads(all_items) ==
    LET keys == ConversationKeys(all_items)
    IN  [k \in 1..Len(keys) |->
            LET thread == ConversationItems(all_items, keys[k])
            IN  StableSort(thread, [i \in 1..Len(thread) |->
                                       get_item_datetime_for_sorting(thread[i])])]

\* generate_morning_briefing: the sorted threads, one per conversation key.
BriefingThreads(all_items) ==
    LET keys == ConversationKeys(all_items)
    IN  [k \in 1..Len(keys) |->
            LET thread == ConversationItems(all_items, keys[k])
            IN  StableSort(thread, [i \in 1..Len(thread) |-> get_item_datetime(thread[i])])]

\* thread[-1]
Last(thread) == thread[Len(thread)]

\* The analysis loop without the `continue` that ends the unread-priority
\* rule: the thread goes on to the other two rules.
ThreadCategories_fallthrough(thread, my_email, now) ==
    LET last_email == Last(thread)
        last_sender_addr == Lower(last_email.SenderEmailAddress)
        time_since_sent == now - get_item_datetime_for_sorting(last_email)
        first == IF last_email.UnRead /\ last_sender_addr # my_email
                 THEN {"unread_priority"} ELSE {}
    IN  first \cup
        (IF last_sender_addr # my_email
         THEN (IF Contains(last_email.Body, <<"?">>) THEN {"awaiting_reply"} ELSE {})
         ELSE (IF time_since_sent > 2 * 24 /\ Contains(last_email.Body, <<"?">>)
               THEN {"pending_followup"} ELSE {}))

\* The analysis loop with an awaiting-reply rule that does not look for a
\* question mark in the body.
ThreadCategories_no_question(thread, my_email, now) ==
    LET last_email == Last(thread)
        last_sender_addr == Lower(last_email.SenderEmailAddress)
        time_since_sent == now - get_item_datetime_for_sorting(last_email)
    IN  IF last_email.UnRead /\ last_sender_addr # my_email
        THEN {"unread_priority"}
        ELSE IF last_sender_addr # my_email
        THEN {"awaiting_reply"}
        ELSE (IF time_since_sent > 2 * 24 /\ Contains(last_email.Body, <<"?">>)
              THEN {"pending_followup"} ELSE {})

\* The analysis loop with a follow-up rule that fires from 2 days on
\* (>= instead of >).
ThreadCategories_from_two_days(thread, my_email, now) ==
    LET last_email == Last(thread)
        last_sender_addr == Lower(last_email.SenderEmailAddress)
        time_since_sent == now - get_item_datetime_for_sorting(last_email)
    IN  IF last_email.UnRead /\ last_sender_addr # my_email
        THEN {"unread_priority"}
        ELSE IF last_sender_addr # my_email
        THEN (IF Contains(last_email.Body, <<"?">>) THEN {"awaiting_reply"} ELSE {})
        ELSE (IF time_since_sent >= 2 * 24 /\ Contains(last_email.Body, <<"?">>)
              THEN {"pending_followup"} ELSE {})

\* The categories one pass of the analysis loop of get_actionable_emails
\* appends the thread's last item to (each rule ends with `continue`).
ThreadCategories(thread, my_email, now) ==
    LET last_email == Last(thread)
        last_sender_addr == Lower(last_email.SenderEmailAddress)
        time_since_sent == now - get_item_datetime_for_sorting(last_email)
    IN  IF last_email.UnRead /\ last_sender_addr # my_email
        THEN {"unread_priority"}
        ELSE IF last_sender_addr # my_email
        THEN (IF Contains(last_email.Body, <<"?">>) THEN {"awaiting_reply"} ELSE {})
        ELSE IF last_sender_addr = my_email
        THEN (IF time_since_sent > 2 * 24 /\ Contains(last_email.Body, <<"?">>)
              THEN {"pending_followup"} ELSE {})
        ELSE {}

\* URGENT_KEYWORDS, in list order
URGENT_KEYWORDS ==
    <<<<"u", "r", "g", "e", "n", "t">>,
      <<"a", "c", "t", "i", "o", "n", " ", "r", "e", "q", "u", "i", "r", "e", "d">>,
      <<"d", "r", "i", "n", "g", "e", "n", "d">>,
      <<"a", "k", "s", "i", "e", " ", "v", "e", "r", "e", "i", "s">>,
      <<"s", "g", "m">>,
      <<"s", "p", "e", "r", "d", "a", "t", "u", "m">>,
      <<"k", "r", "i", "t", "i", "e", "s">>,
      <<"b", "e", "l", "a", "n", "g", "r", "i", "k">>,
      <<"s", "p", "o", "e", "d", "i", "g">>,
      <<"g", "o", "u">>,
      <<"N", "B">>>>

\* next((kw for kw in URGENT_KEYWORDS if kw in subject.lower()), None)
kw_found(subject) ==
    LET hits == SelectSeq(URGENT_KEYWORDS, LAMBDA kw : Contains(Lower(subject), kw))
    IN  IF hits = <<>> THEN None ELSE hits[1]

\* The reason given to an unread-priority item: the if / elif chain.
UnreadReason(last_email, manager_name) ==
    IF Truthy(manager_name)
       /\ Contains(Lower(last_email.SenderName), Lower(manager_name))
    THEN <<"Unread message from your manager">>
    ELSE IF Contains(Lower(last_email.Categories), <<"v", "i", "p">>)
    THEN <<"Unread message from a VIP">>
    ELSE IF kw_found(last_email.Subject) # None
    THEN <<"Unread message with", kw_found(last_email.Subject)>>
    ELSE <<"Unread message">>

\* results["unread_priority"][k]['reason'], in thread order.
UnreadReasons(threads, my_email, manager_name, now) ==
    LET hit == SelectSeq(threads,
                   LAMBDA t : "unread_priority" \in ThreadCategories(t, my_email, now))
    IN  [k \in 1..Len(hit) |-> UnreadReason(Last(hit[k]), manager_name)]

\* results[category]: the last items appended to it, in thread order.
Results(threads, my_email, now, category) ==
    LET hit == SelectSeq(threads, LAMBDA t : category \in ThreadCategories(t, my_email, now))
    IN  [k \in 1..Len(hit) |-> Last(hit[k])]

\* seq[:n]
Take(seq, n) == SubSeq(seq, 1, IF n < Len(seq) THEN n ELSE Len(seq))

\* ------------------------------------------------------- outcome of a call
\* What one tool call leaves behind: the returned string (its first word and
\* an abbreviation of the rest), the cache, the backend calls made, the
\* (email_number, item) pairs shown in the output in output order, and
\* reset: "none" when clear_email_cache did not run, "empty" when it ran and
\* nothing was stored after it, "filled" when entries were stored after it.
\* kind "raised" is an exception in flight.
Ret(kind, text, cache, backend, reported, reset) ==
    [result |-> [kind |-> kind, text |-> text], cache |-> cache,
     backend |-> backend, reported |-> reported, reset |-> reset]

Raise(cache, backend, reset) ==
    Ret("raised", <<>>, cache, backend, <<>>, reset)

\* reset of a call that ran clear_email_cache and then stored n entries
Reset(n) == IF n = 0 THEN "empty" ELSE "filled"

\* An except clause that returns "Error: ..." instead of "Error <doing>: ...".
TryExcept_colon(out, text) ==
    IF out.result.kind = "raised"
    THEN [out EXCEPT !.result = [kind |-> "exception", text |-> <<"Error:", text[2]>>]]
    ELSE out

\* try: ... except Exception as e: return <text>
TryExcept(out, text) ==
    IF out.result.kind = "raised"
    THEN [out EXCEPT !.result = [kind |-> "exception", text |-> text]]
    ELSE out

\* The backend calls of `steps` that are attempted when the raise_at-th of
\* them raises (0: none raises).
Attempted(steps, raise_at) ==
    IF raise_at \in 1..Len(steps) THEN SubSeq(steps, 1, raise_at) ELSE steps

Raises(steps, raise_at) == raise_at \in 1..Len(steps)

\* The output entries for emails numbered 1..n in order.
Numbered(emails) ==
    [k \in 1..Len(emails) |-> [email_number |-> k, id |-> emails[k].id]]

\* -------------------------------------------------------------- the tools
\* env: what the backend does during the call.
\*   raise_at  which backend call raises (0: none)
\*   found     get_folder_by_name finds the folder
\*   item      GetItemFromID returns an item (not None)
\*   my_email  get_my_email_address: MY_EMAIL or None
\*   fetched   the items the enumeration returns (EntryIDs)
\*   fmt_fail  the EntryID on which format_email raises (0: none)

prioritize_inbox_body(days, max_emails_to_scan, cache, env) ==
    LET steps == <<"connect", "GetDefaultFolder">>
        emails == get_emails_from_folder(env.fetched, days, NowHours, env.fmt_fail)
        emails_to_process == Take(emails, max_emails_to_scan)
    IN  IF Raises(steps, env.raise_at)
        THEN Raise(cache, Attempted(steps, env.raise_at), "none")
        ELSE IF Len(emails) = 0
        THEN Ret("ok", <<"{", "status success: No emails found in the Inbox">>,
                 cache, steps \o <<"Items">>, <<>>, "none")
        ELSE Ret("ok", <<"[", "emails_for_ai">>,
                 CacheAll(clear_email_cache, emails_to_process),
                 steps \o <<"Items">>, Numbered(emails_to_process), "filled")

prioritize_inbox(days, max_emails_to_scan, cache, env) ==
    IF ~(1 <= days /\ days <= 7)
    THEN Ret("validation", <<"Error:", "'days' must be an integer between 1 and 7">>,
             cache, <<>>, <<>>, "none")
    ELSE IF ~(5 <= max_emails_to_scan /\ max_emails_to_scan <= 50)
    THEN Ret("validation", <<"Error:", "'max_emails_to_scan' must be between 5 and 50">>,
             cache, <<>>, <<>>, "none")
    ELSE TryExcept(prioritize_inbox_body(days, max_emails_to_scan, cache, env),
                   <<"Error", "fetching emails for AI analysis:">>)

list_folders(cache, env) ==
    LET steps == <<"connect", "Folders">>
    IN  TryExcept(IF Raises(steps, env.raise_at)
                  THEN Raise(cache, Attempted(steps, env.raise_at), "none")
                  ELSE Ret("ok", <<"Available", "mail folders:">>, cache, steps, <<>>, "none"),
                  <<"Error", "listing mail folders:">>)

\* The common body of list_recent_emails and search_emails after validation.
listing_body(days, folder_name, cache, env) ==
    LET steps == IF Truthy(folder_name) THEN <<"connect", "get_folder_by_name">>
                 ELSE <<"connect", "GetDefaultFolder">>
        emails == get_emails_from_folder(env.fetched, days, NowHours, env.fmt_fail)
    IN  IF Raises(steps, env.raise_at)
        THEN Raise(cache, Attempted(steps, env.raise_at), "none")
        ELSE IF Truthy(folder_name) /\ ~env.found
        THEN Ret("notfound", <<"Error:", "Folder not found">>, cache, steps, <<>>, "none")
        ELSE IF Len(emails) = 0
        THEN Ret("ok", <<"No", "emails found">>, clear_email_cache,
                 steps \o <<"Items">>, <<>>, "empty")
        ELSE Ret("ok", <<"Found", "emails">>, CacheAll(clear_email_cache, emails),
                 steps \o <<"Items">>, Numbered(emails), "filled")

\* list_recent_emails that checks only the lower bound of days.
list_recent_emails_no_max(days, folder_name, cache, env) ==
    IF days < 1
    THEN Ret("validation", <<"Error:", "'days' must be an integer between 1 and MAX_DAYS">>,
             cache, <<>>, <<>>, "none")
    ELSE TryExcept(listing_body(days, folder_name, cache, env),
                   <<"Error", "retrieving email titles:">>)

list_recent_emails(days, folder_name, cache, env) ==
    IF days < 1 \/ days > MAX_DAYS
    THEN Ret("validation", <<"Error:", "'days' must be an integer between 1 and MAX_DAYS">>,
             cache, <<>>, <<>>, "none")
    ELSE TryExcept(listing_body(days, folder_name, cache, env),
                   <<"Error", "retrieving email titles:">>)

search_emails(search_term, days, folder_name, cache, env) ==
    IF ~Truthy(search_term)
    THEN Ret("validation", <<"Error:", "Please provide a search term">>,
             cache, <<>>, <<>>, "none")
    ELSE IF days < 1 \/ days > MAX_DAYS
    THEN Ret("validation", <<"Error:", "'days' must be an integer between 1 and MAX_DAYS">>,
             cache, <<>>, <<>>, "none")
    ELSE TryExcept(listing_body(days, folder_name, cache, env),
                   <<"Error", "searching emails:">>)

count_unread_emails(folder_name, cache, env) ==
    LET steps == IF Truthy(folder_name) THEN <<"connect", "get_folder_by_name">>
                 ELSE <<"connect", "GetDefaultFolder">>
        all == steps \o <<"Restrict", "Count">>
    IN  TryExcept(
            IF Raises(steps, env.raise_at)
            THEN Raise(cache, Attempted(steps, env.raise_at), "none")
            ELSE IF Truthy(folder_name) /\ ~env.found
            THEN Ret("notfound", <<"Error:", "Folder not found">>, cache, steps, <<>>, "none")
            ELSE IF Raises(all, env.raise_at)
            THEN Raise(cache, Attempted(all, env.raise_at), "none")
            ELSE Ret("ok", <<"You", "have N unread emails">>, cache, all, <<>>, "none"),
            <<"Error", "counting unread emails:">>)

\* A variant that evicts a cached entry the backend no longer resolves.
get_email_by_number_evict(email_number, cache, env) ==
    LET steps == <<"connect", "GetItemFromID">>
    IN  TryExcept(
            IF DOMAIN cache = {}
            THEN Ret("notfound", <<"Error:", "No emails have been listed yet">>,
                     cache, <<>>, <<>>, "none")
            ELSE IF email_number \notin DOMAIN cache
            THEN Ret("notfound", <<"Error:", "Email #n not found in the current listing">>,
                     cache, <<>>, <<>>, "none")
            ELSE IF Raises(steps, env.raise_at)
            THEN Raise(cache, Attempted(steps, env.raise_at), "none")
            ELSE IF ~env.item
            THEN Ret("notfound", <<"Error:", "Email #n could not be retrieved from Outlook">>,
                     CacheDel(cache, email_number), steps, <<>>, "none")
            ELSE Ret("ok", <<"Email", "#n Details:">>, cache, steps,
                     <<[email_number |-> email_number, id |-> cache[email_number].id]>>, "none"),
            <<"Error", "retrieving email details:">>)

get_email_by_number(email_number, cache, env) ==
    LET steps == <<"connect", "GetItemFromID">>
    IN  TryExcept(
            IF DOMAIN cache = {}
            THEN Ret("notfound", <<"Error:", "No emails have been listed yet">>,
                     cache, <<>>, <<>>, "none")
            ELSE IF email_number \notin DOMAIN cache
            THEN Ret("notfound", <<"Error:", "Email #n not found in the current listing">>,
                     cache, <<>>, <<>>, "none")
            ELSE IF Raises(steps, env.raise_at)
            THEN Raise(cache, Attempted(steps, env.raise_at), "none")
            ELSE IF ~env.item
            THEN Ret("notfound", <<"Error:", "Email #n could not be retrieved from Outlook">>,
                     cache, steps, <<>>, "none")
            ELSE Ret("ok", <<"Email", "#n Details:">>, cache, steps,
                     <<[email_number |-> email_number, id |-> cache[email_number].id]>>, "none"),
            <<"Error", "retrieving email details:">>)

\* The loop that formats and caches the items to report, numbering them from
\* 1: the cache after it, and whether format_email raised on the way.
\* to_report: the raw items in processing order.
FirstFailure(to_report, fmt_fail) ==
    IF \E k \in 1..Len(to_report) : to_report[k].EntryID = fmt_fail
    THEN CHOOSE k \in 1..Len(to_report) :
            /\ to_report[k].EntryID = fmt_fail
            /\ \A j \in 1..(k - 1) : to_report[j].EntryID # fmt_fail
    ELSE 0

FormatAndCache(to_report, fmt_fail) ==
    LET stop == FirstFailure(to_report, fmt_fail)
        done == IF stop = 0 THEN to_report ELSE SubSeq(to_report, 1, stop - 1)
    IN  CacheAll(clear_email_cache, [k \in 1..Len(done) |-> format_email(done[k])])

\* generate_morning_briefing: thread_status of the thread numbered k.
ThreadStatus(k, thread, my_email, follow_up_days, now) ==
    LET last_email_item == Last(thread)
        last_email_data == format_email(last_email_item)
        is_from_me == IF Truthy(last_email_data.sender_email)
                      THEN Contains(Lower(last_email_data.sender_email), my_email)
                      ELSE FALSE
        hours == now - get_item_datetime(last_email_item)
        days == hours \div 24
    IN  [email_number |-> k,
         id |-> last_email_data.id,
         last_email_from_me |-> is_from_me,
         last_email_timestamp |-> get_item_datetime(last_email_item),
         is_last_email_unread |-> last_email_data.unread /\ ~is_from_me,
         contains_question_in_body |-> Contains(last_email_data.body, <<"?">>),
         days_since_last_email |-> days,
         follow_up_suggestion |-> is_from_me /\ days >= follow_up_days]

\* key=lambda x: (not x['is_last_email_unread'], x['last_email_timestamp'])
\* as one number: the flag decides, then the timestamp.
BriefingKey(status) ==
    (IF ~status.is_last_email_unread THEN 1 ELSE 0) * (NowHours + 1)
        + status.last_email_timestamp

generate_morning_briefing_body(days_to_scan, follow_up_days, cache, env) ==
    LET first == <<"connect">>
        steps == <<"connect", "GetDefaultFolder", "GetDefaultFolder",
                   "Restrict", "Restrict", "ReadFields">>
        all_items == [k \in 1..Len(env.fetched) |-> MailItem(env.fetched[k])]
        threads == BriefingThreads(all_items)
        to_report == [k \in 1..Len(threads) |-> Last(threads[k])]
        threads_for_ai == [k \in 1..Len(threads) |->
                              ThreadStatus(k, threads[k], env.my_email, follow_up_days, NowHours)]
        sorted == StableSortReverse(threads_for_ai,
                      [k \in 1..Len(threads_for_ai) |-> BriefingKey(threads_for_ai[k])])
    IN  IF Raises(first, env.raise_at)
        THEN Raise(cache, Attempted(first, env.raise_at), "none")
        ELSE IF ~Truthy(env.my_email)
        THEN Ret("no_user", <<"Error:", "Could not determine your email address">>,
                 cache, first, <<>>, "none")
        ELSE IF Raises(steps, env.raise_at)
        THEN Raise(cache, Attempted(steps, env.raise_at), "none")
        ELSE IF FirstFailure(to_report, env.fmt_fail) # 0
        THEN Raise(FormatAndCache(to_report, env.fmt_fail), steps,
                   Reset(FirstFailure(to_report, env.fmt_fail) - 1))
        ELSE Ret("ok", <<"{", "briefing_metadata">>,
                 FormatAndCache(to_report, env.fmt_fail), steps,
                 [k \in 1..Len(sorted) |->
                     [email_number |-> sorted[k].email_number, id |-> sorted[k].id]],
                 Reset(Len(to_report)))

generate_morning_briefing(days_to_scan, follow_up_days, cache, env) ==
    IF ~(1 <= days_to_scan /\ days_to_scan <= 14)
    THEN Ret("validation", <<"Error:", "'days_to_scan' must be an integer between 1 and 14">>,
             cache, <<>>, <<>>, "none")
    ELSE IF follow_up_days < 1
    THEN Ret("validation", <<"Error:", "'follow_up_days' must be a positive integer">>,
             cache, <<>>, <<>>, "none")
    ELSE TryExcept(generate_morning_briefing_body(days_to_scan, follow_up_days, cache, env),
                   <<"{", "status error: An error occurred while gathering briefing data:">>)

\* get_actionable_emails that goes on without the user's address.
get_actionable_emails_body_anonymous(days_to_scan, limit_per_category, cache, env) ==
    LET first == <<"connect">>
        steps == <<"connect", "GetDefaultFolder", "GetDefaultFolder",
                   "Restrict", "Restrict", "ReadFields">>
        all_items == [k \in 1..Len(env.fetched) |-> MailItem(env.fetched[k])]
        threads == ActionableThreads(all_items)
        to_report ==
            Take(Results(threads, env.my_email, NowHours, "unread_priority"), limit_per_category)
            \o Take(Results(threads, env.my_email, NowHours, "awaiting_reply"), limit_per_category)
            \o Take(Results(threads, env.my_email, NowHours, "pending_followup"), limit_per_category)
    IN  IF Raises(first, env.raise_at)
        THEN Raise(cache, Attempted(first, env.raise_at), "none")
        ELSE IF Raises(steps, env.raise_at)
        THEN Raise(cache, Attempted(steps, env.raise_at), "none")
        ELSE IF FirstFailure(to_report, env.fmt_fail) # 0
        THEN Raise(FormatAndCache(to_report, env.fmt_fail), steps,
                   Reset(FirstFailure(to_report, env.fmt_fail) - 1))
        ELSE IF Len(to_report) = 0
        THEN Ret("ok", <<"Your", "inbox is all caught up!">>, clear_email_cache,
                 steps, <<>>, "empty")
        ELSE Ret("ok", <<"Here", "is a summary of emails that need your attention">>,
                 FormatAndCache(to_report, env.fmt_fail), steps,
                 [k \in 1..Len(to_report) |->
                     [email_number |-> k, id |-> to_report[k].EntryID]],
                 "filled")

get_actionable_emails_body(days_to_scan, limit_per_category, cache, env) ==
    LET first == <<"connect">>
        steps == <<"connect", "GetDefaultFolder", "GetDefaultFolder",
                   "Restrict", "Restrict", "ReadFields">>
        all_items == [k \in 1..Len(env.fetched) |-> MailItem(env.fetched[k])]
        threads == ActionableThreads(all_items)
        to_report ==
            Take(Results(threads, env.my_email, NowHours, "unread_priority"), limit_per_category)
            \o Take(Results(threads, env.my_email, NowHours, "awaiting_reply"), limit_per_category)
            \o Take(Results(threads, env.my_email, NowHours, "pending_followup"), limit_per_category)
    IN  IF Raises(first, env.raise_at)
        THEN Raise(cache, Attempted(first, env.raise_at), "none")
        ELSE IF ~Truthy(env.my_email)
        THEN Ret("no_user", <<"Error:", "Could not determine your email address">>,
                 cache, first, <<>>, "none")
        ELSE IF Raises(steps, env.raise_at)
        THEN Raise(cache, Attempted(steps, env.raise_at), "none")
        ELSE IF FirstFailure(to_report, env.fmt_fail) # 0
        THEN Raise(FormatAndCache(to_report, env.fmt_fail), steps,
                   Reset(FirstFailure(to_report, env.fmt_fail) - 1))
        ELSE IF Len(to_report) = 0
        THEN Ret("ok", <<"Your", "inbox is all caught up!">>, clear_email_cache,
                 steps, <<>>, "empty")
        ELSE Ret("ok", <<"Here", "is a summary of emails that need your attention">>,
                 FormatAndCache(to_report, env.fmt_fail), steps,
                 [k \in 1..Len(to_report) |->
                     [email_number |-> k, id |-> to_report[k].EntryID]],
                 "filled")

get_actionable_emails(days_to_scan, limit_per_category, cache, env) ==
    IF ~(1 <= days_to_scan /\ days_to_scan <= ACTIONABLE_EMAIL_MAX_DAYS)
    THEN Ret("validation", <<"Error:", "'days_to_scan' must be an integer between 1 and 60">>,
             cache, <<>>, <<>>, "none")
    ELSE IF limit_per_category < 1
    THEN Ret("validation", <<"Error:", "'limit_per_category' must be a positive integer">>,
             cache, <<>>, <<>>, "none")
    ELSE TryExcept(get_actionable_emails_body(days_to_scan, limit_per_category, cache, env),
                   <<"Error", "analyzing actionable emails:">>)

\* URGENT_KEYWORDS of inbox_load_and_mood_estimator, in list order
LOAD_URGENT_KEYWORDS ==
    <<<<"u", "r", "g", "e", "n", "t">>,
      <<"a", "c", "t", "i", "o", "n", " ", "r", "e", "q", "u", "i", "r", "e", "d">>,
      <<"a", "s", "a", "p">>,
      <<"d", "e", "a", "d", "l", "i", "n", "e">>,
      <<"c", "r", "i", "t", "i", "c", "a", "l">>,
      <<"d", "r", "i", "n", "g", "e", "n", "d">>,
      <<"a", "k", "s", "i", "e", " ", "v", "e", "r", "e", "i", "s">>,
      <<"s", "g", "m">>,
      <<"s", "p", "e", "r", "d", "a", "t", "u", "m">>,
      <<"k", "r", "i", "t", "i", "e", "s">>,
      <<"b", "e", "l", "a", "n", "g", "r", "i", "k">>,
      <<"s", "p", "o", "e", "d", "i", "g">>,
      <<"g", "o", "u">>,
      <<"N", "B">>>>

\* inbox_load_and_mood_estimator: the threads, one per conversation key,
\* each sorted by ReceivedTime (datetime.min for an item without one).
LoadThreads(all_items) ==
    LET keys == ConversationKeys(all_items)
    IN  [k \in 1..Len(keys) |->
            LET thread == ConversationItems(all_items, keys[k])
            IN  StableSort(thread, [i \in 1..Len(thread) |->
                    IF thread[i].ReceivedTime # NoTime THEN thread[i].ReceivedTime
                    ELSE datetime_min])]

RECURSIVE SumSeq(_)
SumSeq(s) == IF s = <<>> THEN 0 ELSE s[1] + SumSeq(Tail(s))

RECURSIVE Flatten(_)
Flatten(ss) == IF ss = <<>> THEN <<>> ELSE ss[1] \o Flatten(Tail(ss))

\* The delay loop that takes the first later-positioned item of the user as
\* the reply, whatever its sent time.
ThreadDelays_any_later(thread, my_email) ==
    LET idx == [i \in 1..Len(thread) |-> i]
        replies(i) == SelectSeq(idx, LAMBDA j :
                        /\ j > i
                        /\ thread[j].SentOn # NoTime
                        /\ Lower(thread[j].SenderEmailAddress) = my_email)
        answered == SelectSeq(idx, LAMBDA i :
                        /\ thread[i].ReceivedTime # NoTime
                        /\ Lower(thread[i].SenderEmailAddress) # my_email
                        /\ replies(i) # <<>>)
    IN  [k \in 1..Len(answered) |->
            thread[replies(answered[k])[1]].SentOn - thread[answered[k]].ReceivedTime]

\* The "Average Response Delay" loop over one thread: the delays it adds
\* to total_response_delay_seconds, in hours, one per inbound item that has
\* a ReceivedTime and a later-positioned item of the user sent after it
\* (the first such item; `break`).
ThreadDelays(thread, my_email) ==
    LET idx == [i \in 1..Len(thread) |-> i]
        replies(i) == SelectSeq(idx, LAMBDA j :
                        /\ j > i
                        /\ thread[j].SentOn # NoTime
                        /\ Lower(thread[j].SenderEmailAddress) = my_email
                        /\ thread[j].SentOn > thread[i].ReceivedTime)
        answered == SelectSeq(idx, LAMBDA i :
                        /\ thread[i].ReceivedTime # NoTime
                        /\ Lower(thread[i].SenderEmailAddress) # my_email
                        /\ replies(i) # <<>>)
    IN  [k \in 1..Len(answered) |->
            thread[replies(answered[k])[1]].SentOn - thread[answered[k]].ReceivedTime]

\* All delays of one scan, thread by thread.
Delays(threads, my_email) ==
    Flatten([k \in 1..Len(threads) |-> ThreadDelays(threads[k], my_email)])

\* unread_urgent_count
UnreadUrgentCount(threads, my_email) ==
    Len(SelectSeq(threads, LAMBDA t :
        /\ Last(t).UnRead
        /\ Lower(Last(t).SenderEmailAddress) # my_email
        /\ \E k \in 1..Len(LOAD_URGENT_KEYWORDS) :
                Contains(Lower(Last(t).Subject), LOAD_URGENT_KEYWORDS[k])))

\* flagged_threads_count (FlagStatus 2 is olFlagged)
FlaggedThreadsCount(threads) ==
    Len(SelectSeq(threads, LAMBDA t : Last(t).FlagStatus = 2))

\* round(num / den, 0) for num >= 0, den > 0: to the nearest integer, a tie
\* to the even one.
Round(num, den) ==
    LET q == num \div den
        r == num % den
    IN  IF 2 * r < den THEN q
        ELSE IF 2 * r > den THEN q + 1
        ELSE IF q % 2 = 0 THEN q ELSE q + 1

Min(a, b) == IF a < b THEN a ELSE b

\* The load score without any of the caps.
load_score_uncapped(unread_urgent_count, flagged_threads_count, total_response_delay, replied_to_count) ==
    LET den == IF replied_to_count > 0 THEN replied_to_count * 24 ELSE 1
        delay == IF replied_to_count > 0 THEN total_response_delay * 10 ELSE 0
    IN  Round((unread_urgent_count * 15 + flagged_threads_count * 5) * den + delay, den)

\* load_score, in hundredths. Delays are in hours, so
\* avg_response_delay_hours = total_response_delay / replied_to_count (0 when
\* nothing was answered) and the sum is kept as a fraction over den until
\* the final round(..., 2).
load_score(unread_urgent_count, flagged_threads_count, total_response_delay, replied_to_count) ==
    LET den == IF replied_to_count > 0 THEN replied_to_count * 24 ELSE 1
        delay == IF replied_to_count > 0
                 THEN Min(total_response_delay * 10, 20 * den) ELSE 0
        sum == (Min(unread_urgent_count * 15, 50) + Min(flagged_threads_count * 5, 30)) * den
                + delay
    IN  Round(Min(sum, 100 * den), den)

inbox_load_and_mood_estimator(days_to_scan, cache, env) ==
    LET first == <<"connect">>
        steps == <<"connect", "GetDefaultFolder", "GetDefaultFolder",
                   "Restrict", "Restrict", "ReadFields">>
    IN  IF ~(1 <= days_to_scan /\ days_to_scan <= ACTIONABLE_EMAIL_MAX_DAYS)
        THEN Ret("validation", <<"Error:", "'days_to_scan' must be an integer between 1 and 60">>,
                 cache, <<>>, <<>>, "none")
        ELSE TryExcept(
                IF Raises(first, env.raise_at)
                THEN Raise(cache, Attempted(first, env.raise_at), "none")
                ELSE IF ~Truthy(env.my_email)
                THEN Ret("no_user", <<"Error:", "Could not determine your email address">>,
                         cache, first, <<>>, "none")
                ELSE IF Raises(steps, env.raise_at)
                THEN Raise(cache, Attempted(steps, env.raise_at), "none")
                ELSE Ret("ok", <<"{", "load_score">>, cache, steps, <<>>, "none"),
                <<"Error", "calculating inbox load:">>)

\* reply_to_email_by_number that replies to the newest listed email when the
\* number is not in the cache.
reply_to_email_by_number_default(email_number, reply_text, cache, env) ==
    LET steps == <<"connect", "GetItemFromID", "Reply", "Send", "SenderName">>
    IN  TryExcept(
            IF DOMAIN cache = {}
            THEN Ret("notfound", <<"Error:", "No emails have been listed yet">>,
                     cache, <<>>, <<>>, "none")
            ELSE IF Raises(steps, env.raise_at)
            THEN Raise(cache, Attempted(steps, env.raise_at), "none")
            ELSE Ret("ok", <<"Reply", "sent successfully to:">>, cache, steps, <<>>, "none"),
            <<"Error", "replying to email:">>)

reply_to_email_by_number(email_number, reply_text, cache, env) ==
    LET lookup == <<"connect", "GetItemFromID">>
        steps == <<"connect", "GetItemFromID", "Reply", "Send", "SenderName">>
    IN  TryExcept(
            IF DOMAIN cache = {}
            THEN Ret("notfound", <<"Error:", "No emails have been listed yet">>,
                     cache, <<>>, <<>>, "none")
            ELSE IF email_number \notin DOMAIN cache
            THEN Ret("notfound", <<"Error:", "Email #n not found in the current listing">>,
                     cache, <<>>, <<>>, "none")
            ELSE IF cache[email_number].is_sent_item
            THEN Ret("sent_item", <<"Error:", "Email #n is a sent item">>,
                     cache, <<>>, <<>>, "none")
            ELSE IF Raises(lookup, env.raise_at)
            THEN Raise(cache, Attempted(lookup, env.raise_at), "none")
            ELSE IF ~env.item
            THEN Ret("notfound", <<"Error:", "Email #n could not be retrieved from Outlook">>,
                     cache, lookup, <<>>, "none")
            ELSE IF Raises(steps, env.raise_at)
            THEN Raise(cache, Attempted(steps, env.raise_at), "none")
            ELSE Ret("ok", <<"Reply", "sent successfully to:">>, cache, steps,
                     <<[email_number |-> email_number, id |-> cache[email_number].id]>>, "none"),
            <<"Error", "replying to email:">>)

\* move_email_by_number without `del email_cache[email_number]`.
move_email_by_number_body_keep(email_number, destination_folder_name, cache, env) ==
    LET lookup == <<"connect", "GetItemFromID", "get_folder_by_name">>
        steps == <<"connect", "GetItemFromID", "get_folder_by_name", "Move">>
    IN  IF Raises(lookup, env.raise_at)
        THEN Raise(cache, Attempted(lookup, env.raise_at), "none")
        ELSE IF ~env.item
        THEN Ret("notfound", <<"Error:", "Email #n could no longer be found in Outlook">>,
                 cache, lookup, <<>>, "none")
        ELSE IF ~env.found
        THEN Ret("notfound", <<"Error:", "Destination folder could not be found">>,
                 cache, lookup, <<>>, "none")
        ELSE IF Raises(steps, env.raise_at)
        THEN Raise(cache, Attempted(steps, env.raise_at), "none")
        ELSE Ret("ok", <<"Success:", "Email #n has been moved">>, cache, steps,
                 <<[email_number |-> email_number, id |-> cache[email_number].id]>>, "none")

\* move_email_by_number that deletes the cache entry before it calls Move.
move_email_by_number_body_del_first(email_number, destination_folder_name, cache, env) ==
    LET lookup == <<"connect", "GetItemFromID", "get_folder_by_name">>
        steps == <<"connect", "GetItemFromID", "get_folder_by_name", "Move">>
    IN  IF Raises(lookup, env.raise_at)
        THEN Raise(cache, Attempted(lookup, env.raise_at), "none")
        ELSE IF ~env.item
        THEN Ret("notfound", <<"Error:", "Email #n could no longer be found in Outlook">>,
                 cache, lookup, <<>>, "none")
        ELSE IF ~env.found
        THEN Ret("notfound", <<"Error:", "Destination folder could not be found">>,
                 cache, lookup, <<>>, "none")
        ELSE IF Raises(steps, env.raise_at)
        THEN Raise(CacheDel(cache, email_number), Attempted(steps, env.raise_at), "none")
        ELSE Ret("ok", <<"Success:", "Email #n has been moved">>,
                 CacheDel(cache, email_number), steps,
                 <<[email_number |-> email_number, id |-> cache[email_number].id]>>, "none")

move_email_by_number_body(email_number, destination_folder_name, cache, env) ==
    LET lookup == <<"connect", "GetItemFromID", "get_folder_by_name">>
        steps == <<"connect", "GetItemFromID", "get_folder_by_name", "Move">>
    IN  IF Raises(lookup, env.raise_at)
        THEN Raise(cache, Attempted(lookup, env.raise_at), "none")
        ELSE IF ~env.item
        THEN Ret("notfound", <<"Error:", "Email #n could no longer be found in Outlook">>,
                 cache, lookup, <<>>, "none")
        ELSE IF ~env.found
        THEN Ret("notfound", <<"Error:", "Destination folder could not be found">>,
                 cache, lookup, <<>>, "none")
        ELSE IF Raises(steps, env.raise_at)
        THEN Raise(cache, Attempted(steps, env.raise_at), "none")
        ELSE Ret("ok", <<"Success:", "Email #n has been moved">>,
                 CacheDel(cache, email_number), steps,
                 <<[email_number |-> email_number, id |-> cache[email_number].id]>>, "none")

\* move_email_by_number with the cache checks moved inside the try, after
\* the connection: a missing number surfaces as a caught KeyError.
move_email_by_number_late_check(email_number, destination_folder_name, cache, env) ==
    IF ~Truthy(destination_folder_name)
    THEN Ret("validation", <<"Error:", "You must provide a destination folder name">>,
             cache, <<>>, <<>>, "none")
    ELSE TryExcept(
            IF email_number \notin DOMAIN cache
            THEN Raise(cache, <<"connect">>, "none")
            ELSE move_email_by_number_body(email_number, destination_folder_name, cache, env),
            <<"Error", "moving email:">>)

move_email_by_number(email_number, destination_folder_name, cache, env) ==
    IF DOMAIN cache = {}
    THEN Ret("notfound", <<"Error:", "No emails have been listed yet">>,
             cache, <<>>, <<>>, "none")
    ELSE IF email_number \notin DOMAIN cache
    THEN Ret("notfound", <<"Error:", "Email #n not found in the current listing">>,
             cache, <<>>, <<>>, "none")
    ELSE IF ~Truthy(destination_folder_name)
    THEN Ret("validation", <<"Error:", "You must provide a destination folder name">>,
             cache, <<>>, <<>>, "none")
    ELSE TryExcept(move_email_by_number_body(email_number, destination_folder_name, cache, env),
                   <<"Error", "moving email:">>)

\* The print before the try evaluates len(body); len(None) raises TypeError.
compose_email(recipient_email, subject, body, cc_email, cache, env) ==
    LET steps == <<"connect", "CreateItem", "Send">>
    IN  IF body = None
        THEN Raise(cache, <<>>, "none")
        ELSE TryExcept(
                IF Raises(steps, env.raise_at)
                THEN Raise(cache, Attempted(steps, env.raise_at), "none")
                ELSE Ret("ok", <<"Email", "sent successfully to:">>, cache, steps, <<>>, "none"),
                <<"Error", "sending email:">>)

\* --------------------------------------------------------- the state machine
NoEnv == [raise_at |-> 0, found |-> TRUE, item |-> TRUE, my_email |-> MY_EMAIL,
          fetched |-> <<>>, fmt_fail |-> 0]

\* The backend raising at one of its first n calls.
FailEnvs(n) == {[NoEnv EXCEPT !.raise_at = r] : r \in 1..n}

\* The backend answering an enumeration; format_email may raise on one of
\* the items returned.
FetchEnvs ==
    UNION {{[NoEnv EXCEPT !.fetched = s, !.fmt_fail = x] :
                x \in {0} \cup {s[k] : k \in 1..Len(s)}} : s \in Fetches}

\* The backend holding a folder's items (in storage order), every item
\* readable; get_emails_from_folder sorts them itself.
ListEnvs ==
    {[NoEnv EXCEPT !.fetched = s] :
        s \in {t \in Fetches : \A a, b \in 1..Len(t) : a < b => t[a] < t[b]}}

\* The same, with format_email raising on one of the items held.
ListFailEnvs ==
    UNION {{[e EXCEPT !.fmt_fail = e.fetched[k]] : k \in 1..Len(e.fetched)} : e \in ListEnvs}

\* The backend answering a lookup of an item and of a folder.
LookupEnvs ==
    {[NoEnv EXCEPT !.found = f, !.item = i] : f \in BOOLEAN, i \in BOOLEAN}

NoUserEnv == [NoEnv EXCEPT !.my_email = None]
NoFolderEnv == [NoEnv EXCEPT !.found = FALSE]

NoArgs == [number |-> 0, days |-> 0, n2 |-> 0]

Ordinals == 0..(MaxFetched + 1)

NoRun == [phase |-> "idle", all_items |-> <<>>, now |-> 0, manager_name |-> None,
          unread_priority |-> <<>>, awaiting_reply |-> <<>>, pending_followup |-> <<>>,
          reasons |-> <<>>, threads |-> <<>>,
          follow_up_days |-> 1, threads_for_ai |-> <<>>, conversation_threads |-> <<>>,
          unread_urgent_count |-> 0, flagged_threads_count |-> 0,
          total_response_delay |-> 0, replied_to_count |-> 0, load_score |-> 0]

Init ==
    /\ email_cache = [k \in {} |-> 0]
    /\ last = [tool |-> "none", args |-> NoArgs,
               result |-> [kind |-> "ok", text |-> <<>>],
               backend |-> <<>>, reported |-> <<>>,
               my_email |-> MY_EMAIL, fmt_fail |-> 0]
    /\ moved = {}
    /\ fresh = FALSE
    /\ run = NoRun

\* One tool call: the cache and the record of the call after it, with what
\* the backend held for it: the user's address and the item (if any) that
\* format_email cannot format.
Call(tool, args, env, out) ==
    /\ email_cache' = out.cache
    /\ last' = [tool |-> tool, args |-> args, result |-> out.result,
                backend |-> out.backend, reported |-> out.reported,
                my_email |-> env.my_email, fmt_fail |-> env.fmt_fail]
    /\ moved' = IF out.reset # "none" THEN {}
                ELSE IF tool = "move_email_by_number" /\ out.result.kind = "ok"
                THEN moved \cup {args.number}
                ELSE moved
    /\ fresh' = IF out.reset = "none" THEN fresh ELSE out.reset = "empty"
    /\ UNCHANGED run

\* The arguments and backend behaviours a call is tried with: every
\* argument vector with a quiet backend, and the in-range ones with every
\* backend behaviour.
PrioritizeInbox ==
    \E days \in {0, 1, 7, 8}, n \in {4, 5, 50, 51} :
    \E env \in IF days = 1 /\ n = 5 THEN FailEnvs(2) \cup ListEnvs ELSE {NoEnv} :
        Call("prioritize_inbox", [NoArgs EXCEPT !.days = days, !.n2 = n], env,
             prioritize_inbox(days, n, email_cache, env))

ListFolders ==
    \E env \in FailEnvs(2) \cup {NoEnv} :
        Call("list_folders", NoArgs, env, list_folders(email_cache, env))

ListRecentEmails ==
    \E days \in {0, 1, 180, 181, 400}, folder \in {None, <<>>, <<"A">>} :
    \E env \in IF (days = 1 /\ folder = None) \/ (days = 180 /\ folder = <<"A">>)
               THEN FailEnvs(2) \cup ListEnvs \cup {NoFolderEnv}
                    \cup (IF days = 1 THEN ListFailEnvs ELSE {})
               ELSE {NoEnv} :
        Call("list_recent_emails", [NoArgs EXCEPT !.days = days], env,
             list_recent_emails(days, folder, email_cache, env))

SearchEmails ==
    \E term \in {<<>>, <<"s">>}, days \in {0, 1, 181, 400}, folder \in {None, <<"A">>} :
    \E env \in IF days = 1 /\ term # <<>> /\ folder = <<"A">>
               THEN FailEnvs(2) \cup ListEnvs \cup {NoFolderEnv} ELSE {NoEnv} :
        Call("search_emails", [NoArgs EXCEPT !.days = days], env,
             search_emails(term, days, folder, email_cache, env))

CountUnreadEmails ==
    \E folder \in {None, <<>>, <<"A">>} :
    \E env \in FailEnvs(4) \cup {NoEnv, NoFolderEnv} :
        Call("count_unread_emails", NoArgs, env,
             count_unread_emails(folder, email_cache, env))

GetEmailByNumber ==
    \E n \in Ordinals :
    \E env \in FailEnvs(2) \cup {NoEnv, [NoEnv EXCEPT !.item = FALSE]} :
        Call("get_email_by_number", [NoArgs EXCEPT !.number = n], env,
             get_email_by_number(n, email_cache, env))

GenerateMorningBriefing ==
    \E days \in {0, 1, 14, 15}, follow_up_days \in {0, 1, 2} :
    \E env \in IF days = 1 /\ follow_up_days = 1
               THEN FailEnvs(6) \cup FetchEnvs \cup {NoUserEnv} ELSE {NoEnv} :
        Call("generate_morning_briefing",
             [NoArgs EXCEPT !.days = days, !.n2 = follow_up_days], env,
             generate_morning_briefing(days, follow_up_days, email_cache, env))

GetActionableEmails ==
    \E days \in {0, 1, 60, 61}, limit \in {0, 1, 2} :
    \E env \in IF days = 60 /\ limit > 0
               THEN FailEnvs(6) \cup FetchEnvs \cup {NoUserEnv} ELSE {NoEnv} :
        Call("get_actionable_emails", [NoArgs EXCEPT !.days = days, !.n2 = limit], env,
             get_actionable_emails(days, limit, email_cache, env))

InboxLoadAndMoodEstimator ==
    \E days \in {0, 1, 60, 61} :
    \E env \in FailEnvs(6) \cup {NoEnv, NoUserEnv} :
        Call("inbox_load_and_mood_estimator", [NoArgs EXCEPT !.days = days], env,
             inbox_load_and_mood_estimator(days, email_cache, env))

ReplyToEmailByNumber ==
    \E n \in Ordinals :
    \E env \in FailEnvs(5) \cup {NoEnv, [NoEnv EXCEPT !.item = FALSE]} :
        Call("reply_to_email_by_number", [NoArgs EXCEPT !.number = n], env,
             reply_to_email_by_number(n, <<"o", "k">>, email_cache, env))

MoveEmailByNumber ==
    \E n \in Ordinals, folder \in {<<>>, <<"A">>} :
    \E env \in FailEnvs(4) \cup LookupEnvs :
        Call("move_email_by_number", [NoArgs EXCEPT !.number = n], env,
             move_email_by_number(n, folder, email_cache, env))

ComposeEmail ==
    \E body \in {<<"h", "i">>, None}, cc \in {None, <<"c">>} :
    \E env \in FailEnvs(3) \cup {NoEnv} :
        Call("compose_email", NoArgs, env,
             compose_email(<<"a", "@", "x">>, <<"s">>, body, cc, email_cache, env))

Next ==
    \/ PrioritizeInbox
    \/ ListFolders
    \/ ListRecentEmails
    \/ SearchEmails
    \/ CountUnreadEmails
    \/ GetEmailByNumber
    \/ GenerateMorningBriefing
    \/ GetActionableEmails
    \/ InboxLoadAndMoodEstimator
    \/ ReplyToEmailByNumber
    \/ MoveEmailByNumber
    \/ ComposeEmail

Spec == Init /\ [][Next]_vars

\* ------------------------------------------- one analysis pass, on its own
\* The attributes of a fetched item that the analysis loop reads; stamps is
\* the pair (SentOn, ReceivedTime).
ScanAttributes ==
    [conv : {"c1", "c2"},
     addr : {<<"M", "e">>, <<"o", "@", "x">>},
     body : {<<"o", "k", "?">>, <<"o", "k">>},
     unread : BOOLEAN,
     stamps : {<<NoTime, NoTime>>, <<NoTime, NowHours - 49>>,
               <<NowHours - 49, NowHours - 1>>, <<NowHours - 48, NowHours - 48>>,
               <<NowHours - 1, NowHours - 1>>}]

ScanItem(k, a) ==
    [EntryID |-> k, ConversationID |-> a.conv, ConvReadable |-> TRUE,
     SenderEmailAddress |-> a.addr, SenderName |-> <<"O">>,
     Subject |-> <<"s">>, Body |-> a.body, UnRead |-> a.unread,
     Categories |-> <<>>, FlagStatus |-> 0, InSent |-> FALSE,
     SentOn |-> a.stamps[1], ReceivedTime |-> a.stamps[2]]

\* all_items of one run: n items, any attributes.
ScanInputs(n) ==
    {[k \in 1..n |-> ScanItem(k, f[k])] : f \in [1..n -> ScanAttributes]}

InitClassify ==
    /\ email_cache = [k \in {} |-> 0]
    /\ last = [tool |-> "none", args |-> NoArgs,
               result |-> [kind |-> "ok", text |-> <<>>],
               backend |-> <<>>, reported |-> <<>>,
               my_email |-> MY_EMAIL, fmt_fail |-> 0]
    /\ moved = {}
    /\ fresh = FALSE
    /\ \E n \in 0..MaxThreadItems : \E s \in ScanInputs(n) : run = [NoRun EXCEPT !.phase = "fetched", !.all_items = s,
                                                 !.now = NowHours]

\* Steps 2 and 3 of get_actionable_emails: grouping, sorting, the three rules.
AnalyseThreads ==
    /\ run.phase = "fetched"
    /\ LET threads == ActionableThreads(run.all_items)
       IN  run' = [run EXCEPT
                !.phase = "analysed",
                !.threads = threads,
                !.unread_priority = Results(threads, MY_EMAIL, run.now, "unread_priority"),
                !.awaiting_reply = Results(threads, MY_EMAIL, run.now, "awaiting_reply"),
                !.pending_followup = Results(threads, MY_EMAIL, run.now, "pending_followup"),
                !.reasons = UnreadReasons(threads, MY_EMAIL, run.manager_name, run.now)]
    /\ UNCHANGED <<email_cache, last, moved, fresh>>

NextClassify == AnalyseThreads

SpecClassify == InitClassify /\ [][NextClassify]_vars

\* ------------------------------------- the unread-priority reason, on its own
\* Runs of at most MaxPad filler characters.
Pads == {[i \in 1..n |-> "x"] : n \in 0..MaxPad}

\* Subjects: every urgent keyword as listed, in lower case and in upper
\* case, alone or surrounded by other text; and a subject without any.
Subjects ==
    {<<"h", "i">>} \cup
    {p \o v \o q :
        p \in Pads, q \in Pads,
        v \in UNION {{URGENT_KEYWORDS[k], Lower(URGENT_KEYWORDS[k]), Upper(URGENT_KEYWORDS[k])} :
                        k \in 1..Len(URGENT_KEYWORDS)}}

\* One inbound item as the only item of its conversation, and what
\* get_manager_name returned.
InitReason ==
    /\ email_cache = [k \in {} |-> 0]
    /\ last = [tool |-> "none", args |-> NoArgs,
               result |-> [kind |-> "ok", text |-> <<>>],
               backend |-> <<>>, reported |-> <<>>,
               my_email |-> MY_EMAIL, fmt_fail |-> 0]
    /\ moved = {}
    /\ fresh = FALSE
    /\ \E subject \in Subjects,
          sender \in {<<"B", "o", "s", "s">>, <<"O">>},
          categories \in {<<>>, <<"V", "I", "P">>, <<"x">>},
          manager \in {None, <<>>, <<"b", "o", "s", "s">>},
          unread \in BOOLEAN :
            run = [NoRun EXCEPT
                     !.phase = "fetched", !.now = NowHours, !.manager_name = manager,
                     !.all_items =
                        <<[ScanItem(1, [conv |-> "c1", addr |-> <<"o", "@", "x">>,
                                        body |-> <<"o", "k">>, unread |-> unread,
                                        stamps |-> <<NowHours - 1, NowHours - 1>>])
                            EXCEPT !.Subject = subject, !.SenderName = sender,
                                   !.Categories = categories]>>]

SpecReason == InitReason /\ [][NextClassify]_vars

\* ------------------------------------------------ one load scan, on its own
\* inbox_load_and_mood_estimator from the grouping to the load score.
EstimateLoad ==
    /\ run.phase = "fetched"
    /\ LET threads == LoadThreads(run.all_items)
           delays == Delays(threads, MY_EMAIL)
           u == UnreadUrgentCount(threads, MY_EMAIL)
           f == FlaggedThreadsCount(threads)
       IN  run' = [run EXCEPT
                !.phase = "estimated",
                !.threads = threads,
                !.unread_urgent_count = u,
                !.flagged_threads_count = f,
                !.total_response_delay = SumSeq(delays),
                !.replied_to_count = Len(delays),
                !.load_score = load_score(u, f, SumSeq(delays), Len(delays))]
    /\ UNCHANGED <<email_cache, last, moved, fresh>>

NextEstimate == EstimateLoad

\* The attributes of a fetched item that the load scan reads besides the
\* subject; stamps is the pair (SentOn, ReceivedTime).
EstimateAttributes ==
    [conv : {"c1", "c2"},
     addr : {<<"M", "e">>, <<"o", "@", "x">>},
     flag : {0, 2},
     stamps : {<<NoTime, NoTime>>, <<NoTime, NowHours - 49>>,
               <<NowHours - 49, NowHours - 1>>, <<NowHours - 48, NowHours - 48>>,
               <<NowHours - 1, NowHours - 1>>}]

EstimateItem(k, a) ==
    [EntryID |-> k, ConversationID |-> a.conv, ConvReadable |-> TRUE,
     SenderEmailAddress |-> a.addr, SenderName |-> <<"O">>,
     Subject |-> <<"A", "S", "A", "P">>, Body |-> <<"o", "k">>, UnRead |-> TRUE,
     Categories |-> <<>>, FlagStatus |-> a.flag, InSent |-> FALSE,
     SentOn |-> a.stamps[1], ReceivedTime |-> a.stamps[2]]

\* all_items of one run: n items, any attributes.
EstimateInputs(n) ==
    {[k \in 1..n |-> EstimateItem(k, f[k])] : f \in [1..n -> EstimateAttributes]}

InitEstimate ==
    /\ email_cache = [k \in {} |-> 0]
    /\ last = [tool |-> "none", args |-> NoArgs,
               result |-> [kind |-> "ok", text |-> <<>>],
               backend |-> <<>>, reported |-> <<>>,
               my_email |-> MY_EMAIL, fmt_fail |-> 0]
    /\ moved = {}
    /\ fresh = FALSE
    /\ \E n \in 0..MaxThreadItems : \E s \in EstimateInputs(n) :
            run = [NoRun EXCEPT !.phase = "fetched", !.all_items = s, !.now = NowHours]

SpecEstimate == InitEstimate /\ [][NextEstimate]_vars

\* ----------------------------------- grouping and sorting, in the three tools
\* The attributes of a fetched item that grouping and sorting read; stamps
\* is the pair (SentOn, ReceivedTime).
GroupAttributes ==
    [conv : {"c1", "c2"},
     readable : BOOLEAN,
     stamps : {<<NoTime, NoTime>>, <<NoTime, NowHours - 49>>,
               <<NowHours - 49, NowHours - 1>>, <<NowHours - 48, NowHours - 48>>,
               <<NowHours - 1, NowHours - 1>>}]

GroupItem(k, a) ==
    [EntryID |-> k, ConversationID |-> a.conv, ConvReadable |-> a.readable,
     SenderEmailAddress |-> <<"o", "@", "x">>, SenderName |-> <<"O">>,
     Subject |-> <<"s">>, Body |-> <<"o", "k">>, UnRead |-> FALSE,
     Categories |-> <<>>, FlagStatus |-> 0, InSent |-> FALSE,
     SentOn |-> a.stamps[1], ReceivedTime |-> a.stamps[2]]

\* all_items of one run: n items, any attributes.
GroupInputs(n) ==
    {[k \in 1..n |-> GroupItem(k, f[k])] : f \in [1..n -> GroupAttributes]}

InitGroup ==
    /\ email_cache = [k \in {} |-> 0]
    /\ last = [tool |-> "none", args |-> NoArgs,
               result |-> [kind |-> "ok", text |-> <<>>],
               backend |-> <<>>, reported |-> <<>>,
               my_email |-> MY_EMAIL, fmt_fail |-> 0]
    /\ moved = {}
    /\ fresh = FALSE
    /\ \E n \in 0..MaxGroupItems : \E s \in GroupInputs(n) :
            run = [NoRun EXCEPT !.phase = "fetched", !.all_items = s, !.now = NowHours]

\* generate_morning_briefing from the grouping to conversation_threads.
BriefThreads ==
    /\ run.phase = "fetched"
    /\ LET threads == BriefingThreads(run.all_items)
           threads_for_ai == [k \in 1..Len(threads) |->
                                ThreadStatus(k, threads[k], MY_EMAIL, run.follow_up_days, run.now)]
       IN  run' = [run EXCEPT
                !.phase = "briefed",
                !.threads = threads,
                !.threads_for_ai = threads_for_ai,
                !.conversation_threads =
                    StableSortReverse(threads_for_ai,
                        [k \in 1..Len(threads_for_ai) |-> BriefingKey(threads_for_ai[k])])]
    /\ UNCHANGED <<email_cache, last, moved, fresh>>

NextGroup == AnalyseThreads \/ EstimateLoad \/ BriefThreads

SpecGroup == InitGroup /\ [][NextGroup]_vars

\* ------------------------------------------- one briefing pass, on its own
\* The attributes of a fetched item that the briefing reads; stamps is the
\* pair (SentOn, ReceivedTime). The address "some" contains the user's.
BriefAttributes ==
    [conv : {"c1", "c2"},
     addr : {<<"M", "e">>, <<"o", "@", "x">>, <<"s", "o", "m", "e">>},
     unread : BOOLEAN,
     stamps : {<<NoTime, NoTime>>, <<NowHours - 49, NowHours - 1>>,
               <<NowHours - 24, NowHours - 24>>, <<NowHours - 48, NowHours - 48>>}]

BriefItem(k, a) ==
    [EntryID |-> k, ConversationID |-> a.conv, ConvReadable |-> TRUE,
     SenderEmailAddress |-> a.addr, SenderName |-> <<"O">>,
     Subject |-> <<"s">>, Body |-> <<"o", "k">>, UnRead |-> a.unread,
     Categories |-> <<>>, FlagStatus |-> 0, InSent |-> FALSE,
     SentOn |-> a.stamps[1], ReceivedTime |-> a.stamps[2]]

\* all_items of one run: n items, any attributes.
BriefInputs(n) ==
    {[k \in 1..n |-> BriefItem(k, f[k])] : f \in [1..n -> BriefAttributes]}

InitBrief ==
    /\ email_cache = [k \in {} |-> 0]
    /\ last = [tool |-> "none", args |-> NoArgs,
               result |-> [kind |-> "ok", text |-> <<>>],
               backend |-> <<>>, reported |-> <<>>,
               my_email |-> MY_EMAIL, fmt_fail |-> 0]
    /\ moved = {}
    /\ fresh = FALSE
    /\ \E n \in 0..MaxThreadItems, follow_up_days \in 1..MaxFollowUp :
       \E s \in BriefInputs(n) :
            run = [NoRun EXCEPT !.phase = "fetched", !.all_items = s, !.now = NowHours,
                                !.follow_up_days = follow_up_days]

NextBrief == BriefThreads

SpecBrief == InitBrief /\ [][NextBrief]_vars

\* ------------------------------------------------ the load score, on its own
\* The metrics of one scan: any counts, and a total delay only when some
\* inbound item was answered.
InitLoad ==
    /\ email_cache = [k \in {} |-> 0]
    /\ last = [tool |-> "none", args |-> NoArgs,
               result |-> [kind |-> "ok", text |-> <<>>],
               backend |-> <<>>, reported |-> <<>>,
               my_email |-> MY_EMAIL, fmt_fail |-> 0]
    /\ moved = {}
    /\ fresh = FALSE
    /\ \E u \in 0..MaxUrgent, f \in 0..MaxFlagged, c \in 0..MaxReplies :
       \E t \in IF c = 0 THEN {0} ELSE 1..MaxDelay :
            run = [NoRun EXCEPT !.phase = "counted",
                                !.unread_urgent_count = u, !.flagged_threads_count = f,
                                !.total_response_delay = t, !.replied_to_count = c]

\* "Calculate Metrics" and "Load Score Calculation".
CalculateLoadScore ==
    /\ run.phase = "counted"
    /\ run' = [run EXCEPT !.phase = "scored",
                          !.load_score = load_score(run.unread_urgent_count,
                                                    run.flagged_threads_count,
                                                    run.total_response_delay,
                                                    run.replied_to_count)]
    /\ UNCHANGED <<email_cache, last, moved, fresh>>

NextLoad == CalculateLoadScore

SpecLoad == InitLoad /\ [][NextLoad]_vars

\* ------------------------------------------------------------------ claims
Populating ==
    {"prioritize_inbox", "list_recent_emails", "search_emails",
     "generate_morning_briefing", "get_actionable_emails"}

ByNumber ==
    {"get_email_by_number", "reply_to_email_by_number", "move_email_by_number"}

\* The kinds of returned string that report an error.
ErrorKinds == {"validation", "notfound", "no_user", "sent_item", "exception"}

Made(call, step) == \E i \in 1..Len(call.backend) : call.backend[i] = step

\* C1: after a populating call returns a non-error result, every cache entry
\* is one that this call stored and reported (no ordinal of an earlier call
\* still resolves), also when the call found nothing.
C1_OnlyThisCallsEntries ==
    (last.tool \in Populating /\ last.result.kind = "ok") =>
        \A k \in DOMAIN email_cache :
            \E i \in 1..Len(last.reported) :
                /\ last.reported[i].email_number = k
                /\ last.reported[i].id = email_cache[k].id

\* C2: once clear_email_cache has run and nothing was stored since,
\* get_email_by_number returns a not-found error for every number and makes
\* no backend call.
C2_ResetThenNotFound ==
    (last.tool = "get_email_by_number" /\ fresh) =>
        /\ last.result.kind = "notfound"
        /\ last.result.text[1] = "Error:"
        /\ last.backend = <<>>

\* C2 witness: a get of ordinal 1 right after a reset that stored nothing.
C2_Witness ==
    /\ last.tool = "get_email_by_number"
    /\ fresh
    /\ last.args.number = 1
    /\ last.result.kind = "notfound"

\* C3: a successful move removes exactly the moved ordinal and leaves every
\* other ordinal on its item; until the cache is populated again, a get,
\* reply or move on a moved ordinal returns not-found and calls no Move.
C3_MovedOrdinalGone ==
    [][/\ (last'.tool = "move_email_by_number" /\ last'.result.kind = "ok") =>
            /\ last'.args.number \in DOMAIN email_cache
            /\ DOMAIN email_cache' = (DOMAIN email_cache) \ {last'.args.number}
            /\ \A j \in DOMAIN email_cache' : email_cache'[j] = email_cache[j]
       /\ (last'.tool \in ByNumber /\ last'.args.number \in moved) =>
            /\ last'.result.kind = "notfound"
            /\ ~Made(last', "Move")
            /\ email_cache' = email_cache]_vars

\* C3 witness: a get or reply on an ordinal that was moved away, while other
\* ordinals are still cached.
C3_Witness ==
    /\ last.tool \in {"get_email_by_number", "reply_to_email_by_number"}
    /\ last.args.number \in moved
    /\ last.result.kind = "notfound"
    /\ DOMAIN email_cache # {}

\* C4: move_email_by_number on an empty cache or with an ordinal that is not
\* cached returns a not-found error, makes no backend call and leaves the
\* cache alone.
C4_MoveAbsentOrdinal ==
    [][(last'.tool = "move_email_by_number"
            /\ last'.args.number \notin DOMAIN email_cache) =>
        /\ last'.result.kind = "notfound"
        /\ last'.result.text[1] = "Error:"
        /\ last'.backend = <<>>
        /\ email_cache' = email_cache]_vars

\* C4 witness: a move of ordinal 3 refused without a backend call while the
\* cache holds other ordinals.
C4_Witness ==
    /\ last.tool = "move_email_by_number"
    /\ last.args.number = 3
    /\ last.args.number \notin DOMAIN email_cache
    /\ DOMAIN email_cache # {}
    /\ last.result.kind = "notfound"
    /\ last.backend = <<>>

\* C5: reply_to_email_by_number creates or sends a reply only for an ordinal
\* that is in the cache, and cache entries come only from populating calls;
\* on an empty cache or an absent ordinal it returns an error and neither
\* Reply nor Send is called.
C5_ReplyOnlyCached ==
    [][/\ (last'.tool = "reply_to_email_by_number"
                /\ last'.args.number \notin DOMAIN email_cache) =>
            /\ last'.result.kind \in ErrorKinds
            /\ ~Made(last', "Reply")
            /\ ~Made(last', "Send")
       /\ (~(DOMAIN email_cache' \subseteq DOMAIN email_cache)) =>
            last'.tool \in Populating]_vars

\* C5 witness: a reply to an ordinal that is not among the cached ones is
\* refused.
C5_Witness ==
    /\ last.tool = "reply_to_email_by_number"
    /\ DOMAIN email_cache # {}
    /\ last.args.number \notin DOMAIN email_cache
    /\ last.result.kind = "notfound"

\* C6: after a populating call returns a non-error result reporting n items,
\* the cache keys are exactly 1..n and every email_number in the output
\* resolves to the item reported under it.
C6_DenseOrdinals ==
    (last.tool \in Populating /\ last.result.kind = "ok") =>
        /\ DOMAIN email_cache = 1..Len(last.reported)
        /\ \A i \in 1..Len(last.reported) :
                email_cache[last.reported[i].email_number].id = last.reported[i].id

\* The numeric ranges the tools document and check.
OutOfRange(call) ==
    CASE call.tool \in {"list_recent_emails", "search_emails"} ->
            call.args.days < 1 \/ call.args.days > 180
      [] call.tool = "prioritize_inbox" ->
            call.args.days < 1 \/ call.args.days > 7
                \/ call.args.n2 < 5 \/ call.args.n2 > 50
      [] call.tool = "generate_morning_briefing" ->
            call.args.days < 1 \/ call.args.days > 14 \/ call.args.n2 < 1
      [] call.tool = "get_actionable_emails" ->
            call.args.days < 1 \/ call.args.days > 60 \/ call.args.n2 < 1
      [] call.tool = "inbox_load_and_mood_estimator" ->
            call.args.days < 1 \/ call.args.days > 60
      [] OTHER -> FALSE

\* C7: a call with a numeric argument out of its range (days outside 1..180
\* for list_recent_emails and search_emails) returns a validation error,
\* makes no backend call and leaves the cache unchanged.
C7_RangeCheckedFirst ==
    [][OutOfRange(last') =>
        /\ last'.result.kind = "validation"
        /\ last'.result.text[1] = "Error:"
        /\ last'.backend = <<>>
        /\ email_cache' = email_cache]_vars

\* C7 witness: list_recent_emails(days=400) rejected while the cache holds
\* entries.
C7_Witness ==
    /\ last.tool = "list_recent_emails"
    /\ last.args.days = 400
    /\ last.result.kind = "validation"
    /\ last.backend = <<>>
    /\ DOMAIN email_cache # {}

\* C8: every tool call returns a string; no exception leaves the tool.
C8_Total == last.result.kind # "raised"

\* C9 as stated: every error outcome is a string that begins with "Error:".
C9_ErrorColonPrefix ==
    last.result.kind \in ErrorKinds => last.result.text[1] = "Error:"

\* C9 amended: an error the tool detects itself (validation, not-found,
\* missing user address, reply to a sent item) begins with "Error:"; a caught
\* exception begins with the word "Error" followed by what the tool was
\* doing, except in generate_morning_briefing, which returns a JSON object.
C9_ErrorPrefixByKind ==
    /\ last.result.kind \in (ErrorKinds \ {"exception"}) =>
            last.result.text[1] = "Error:"
    /\ last.result.kind = "exception" =>
            last.result.text[1] =
                (IF last.tool = "generate_morning_briefing" THEN "{" ELSE "Error")

\* C9 witness: a connection failure caught by a tool other than the briefing.
C9_Witness ==
    /\ last.result.kind = "exception"
    /\ last.backend = <<"connect">>
    /\ last.tool = "prioritize_inbox"
    /\ last.result.text[1] = "Error"

\* The conversations whose last item is in a result list.
ThreadsIn(list) == {list[i].ConversationID : i \in 1..Len(list)}

\* C10: in one run of get_actionable_emails no conversation is in two of the
\* three categories, and none is twice in one.
C10_CategoriesExclusive ==
    run.phase = "analysed" =>
        /\ ThreadsIn(run.unread_priority) \cap ThreadsIn(run.awaiting_reply) = {}
        /\ ThreadsIn(run.unread_priority) \cap ThreadsIn(run.pending_followup) = {}
        /\ ThreadsIn(run.awaiting_reply) \cap ThreadsIn(run.pending_followup) = {}
        /\ Cardinality(ThreadsIn(run.unread_priority)) = Len(run.unread_priority)
        /\ Cardinality(ThreadsIn(run.awaiting_reply)) = Len(run.awaiting_reply)
        /\ Cardinality(ThreadsIn(run.pending_followup)) = Len(run.pending_followup)

\* C10 witness: an unread message from someone else that asks a question is
\* in unread_priority (and so not in awaiting_reply), while another thread
\* is in awaiting_reply.
C10_Witness ==
    /\ run.phase = "analysed"
    /\ \E i \in 1..Len(run.unread_priority) :
            Contains(run.unread_priority[i].Body, <<"?">>)
    /\ Len(run.awaiting_reply) > 0

\* The urgent keywords a subject contains when letter case is ignored.
KeywordsIn(subject) ==
    {k \in 1..Len(URGENT_KEYWORDS) :
        Contains(Lower(subject), Lower(URGENT_KEYWORDS[k]))}

\* The manager name is known and the sender's name contains it.
FromManager(item, manager_name) ==
    /\ manager_name # None /\ manager_name # <<>>
    /\ Contains(Lower(item.SenderName), Lower(manager_name))

TaggedVip(item) == Contains(Lower(item.Categories), <<"v", "i", "p">>)

\* C11: the reason of an unread-priority item is the first that applies of:
\* manager sender, category containing "vip", an urgent keyword in the
\* subject (letter case ignored), generic unread message.
C11_ReasonFirstMatch ==
    run.phase = "analysed" =>
        \A i \in 1..Len(run.unread_priority) :
            LET item == run.unread_priority[i]
                reason == run.reasons[i]
            IN  IF FromManager(item, run.manager_name)
                THEN reason = <<"Unread message from your manager">>
                ELSE IF TaggedVip(item)
                THEN reason = <<"Unread message from a VIP">>
                ELSE IF KeywordsIn(item.Subject) # {}
                THEN reason[1] = "Unread message with"
                ELSE reason = <<"Unread message">>

\* C12: an unread item from someone else that is neither from the manager
\* nor tagged VIP and whose subject contains a listed keyword in any letter
\* case gets the keyword reason.
C12_EveryKeywordAnyCase ==
    run.phase = "analysed" =>
        \A i \in 1..Len(run.unread_priority) :
            LET item == run.unread_priority[i]
            IN  (/\ ~FromManager(item, run.manager_name)
                 /\ ~TaggedVip(item)
                 /\ KeywordsIn(item.Subject) # {})
                => /\ Len(run.reasons[i]) = 2
                   /\ run.reasons[i][1] = "Unread message with"
                   /\ \E k \in KeywordsIn(item.Subject) : run.reasons[i][2] = URGENT_KEYWORDS[k]

\* The EntryIDs of the items in a result list.
IdsIn(list) == {list[i].EntryID : i \in 1..Len(list)}

\* The last items of the threads of the run.
LastItems == {Last(t) : t \in {ActionableThreads(run.all_items)[k] :
                                    k \in 1..Len(ActionableThreads(run.all_items))}}

FromUser(item) == Lower(item.SenderEmailAddress) = MY_EMAIL

\* C13: a thread that the unread-priority rule does not take is in
\* awaiting_reply exactly when its last item is not from the user and the
\* body of that item contains "?".
C13_AwaitingReplyExactly ==
    run.phase = "analysed" =>
        \A l \in LastItems :
            ~(l.UnRead /\ ~FromUser(l)) =>
                (l.EntryID \in IdsIn(run.awaiting_reply)
                    <=> (~FromUser(l) /\ Contains(l.Body, <<"?">>)))

\* C13 witness: one read thread from someone else with a question is in
\* awaiting_reply, and another read thread from someone else without a
\* question is not.
C13_Witness ==
    /\ run.phase = "analysed"
    /\ \E l \in LastItems :
            ~l.UnRead /\ ~FromUser(l) /\ Contains(l.Body, <<"?">>)
            /\ l.EntryID \in IdsIn(run.awaiting_reply)
    /\ \E l \in LastItems :
            ~l.UnRead /\ ~FromUser(l) /\ ~Contains(l.Body, <<"?">>)
            /\ l.EntryID \notin IdsIn(run.awaiting_reply)

\* The hours between the scan and the effective timestamp of an item: its
\* sent time if it has one, else its received time, else the minimum.
Elapsed(item) ==
    run.now - (IF item.SentOn # NoTime THEN item.SentOn
               ELSE IF item.ReceivedTime # NoTime THEN item.ReceivedTime
               ELSE datetime_min)

\* C14: a thread is in pending_followup exactly when its last item is from
\* the user, more than 2 days have passed since that item's effective
\* timestamp and its body contains "?"; a thread whose last item is from the
\* user with less than 2 days passed is in no category.
C14_PendingFollowupExactly ==
    run.phase = "analysed" =>
        \A l \in LastItems :
            /\ l.EntryID \in IdsIn(run.pending_followup)
                    <=> (FromUser(l) /\ Elapsed(l) > 48 /\ Contains(l.Body, <<"?">>))
            /\ (FromUser(l) /\ Elapsed(l) < 48) =>
                    l.EntryID \notin (IdsIn(run.unread_priority)
                                        \cup IdsIn(run.awaiting_reply)
                                        \cup IdsIn(run.pending_followup))

\* C14 witness: a question the user sent exactly 2 days ago is not in
\* pending_followup, while one sent 49 hours ago is.
C14_Witness ==
    /\ run.phase = "analysed"
    /\ \E l \in LastItems :
            FromUser(l) /\ Elapsed(l) = 48 /\ Contains(l.Body, <<"?">>)
            /\ l.EntryID \notin IdsIn(run.pending_followup)
    /\ \E l \in LastItems :
            FromUser(l) /\ Elapsed(l) = 49 /\ l.EntryID \in IdsIn(run.pending_followup)

\* The (total delay, answered items) pairs whose average is at least that
\* of the run.
SlowerOrEqual ==
    {p \in (0..MaxDelay) \X (0..MaxReplies) :
        /\ (p[2] = 0 => p[1] = 0)
        /\ IF run.replied_to_count = 0 THEN TRUE
           ELSE /\ p[2] > 0
                /\ p[1] * run.replied_to_count >= run.total_response_delay * p[2]}

\* C15: the load score is between 0.00 and 1.00, and it does not decrease
\* when the unread-urgent count, the flagged-thread count or the average
\* response delay grows while the other two stay the same.
C15_LoadScoreBoundedMonotone ==
    run.phase = "scored" =>
        /\ 0 <= run.load_score /\ run.load_score <= 100
        /\ \A u \in run.unread_urgent_count..MaxUrgent :
                load_score(u, run.flagged_threads_count,
                           run.total_response_delay, run.replied_to_count) >= run.load_score
        /\ \A f \in run.flagged_threads_count..MaxFlagged :
                load_score(run.unread_urgent_count, f,
                           run.total_response_delay, run.replied_to_count) >= run.load_score
        /\ \A p \in SlowerOrEqual :
                load_score(run.unread_urgent_count, run.flagged_threads_count,
                           p[1], p[2]) >= run.load_score

\* C15 witness: the score 1.00, reached with every term at its cap.
C15_Witness ==
    /\ run.phase = "scored"
    /\ run.load_score = 100
    /\ run.unread_urgent_count = 4
    /\ run.flagged_threads_count = 7
    /\ run.replied_to_count = 1 /\ run.total_response_delay = 50

\* The (thread, position) pairs of the inbound items of the scan that have a
\* received time.
Inbound ==
    {p \in UNION {{<<k, i>> : i \in 1..Len(LoadThreads(run.all_items)[k])} :
                    k \in 1..Len(LoadThreads(run.all_items))} :
        LET it == LoadThreads(run.all_items)[p[1]][p[2]]
        IN  ~FromUser(it) /\ it.ReceivedTime # NoTime}

\* The later positions in the thread of p that hold an item the user sent
\* strictly after the item at p was received.
LaterReplies(p) ==
    LET t == LoadThreads(run.all_items)[p[1]]
    IN  {j \in (p[2] + 1)..Len(t) :
            FromUser(t[j]) /\ t[j].SentOn # NoTime /\ t[j].SentOn > t[p[2]].ReceivedTime}

\* The gap between the item at p and the first of its later replies.
Gap(p) ==
    LET t == LoadThreads(run.all_items)[p[1]]
        j == CHOOSE x \in LaterReplies(p) : \A y \in LaterReplies(p) : x <= y
    IN  t[j].SentOn - t[p[2]].ReceivedTime

RECURSIVE SumGaps(_)
SumGaps(ps) ==
    IF ps = {} THEN 0
    ELSE LET p == CHOOSE x \in ps : TRUE IN Gap(p) + SumGaps(ps \ {p})

GroupedPhases == {"analysed", "estimated", "briefed"}

\* The (thread, position) pairs of run.threads.
Places ==
    UNION {{<<k, i>> : i \in 1..Len(run.threads[k])} : k \in 1..Len(run.threads)}

\* C17: after grouping, the threads together hold as many items as were
\* fetched minus those whose conversation identifier could not be read; no
\* item is in two places, and no thread is empty.
C17_GroupingPreservesItems ==
    run.phase \in GroupedPhases =>
        /\ Cardinality(Places) =
                Len(run.all_items)
                - Cardinality({i \in 1..Len(run.all_items) : ~run.all_items[i].ConvReadable})
        /\ \A p, q \in Places :
                run.threads[p[1]][p[2]].EntryID = run.threads[q[1]][q[2]].EntryID => p = q
        /\ \A p \in Places :
                \E i \in 1..Len(run.all_items) : run.all_items[i] = run.threads[p[1]][p[2]]
        /\ \A k \in 1..Len(run.threads) : Len(run.threads[k]) > 0

\* C17 witness: three fetched items, one with an unreadable conversation
\* identifier, grouped into two threads.
C17_Witness ==
    /\ run.phase \in GroupedPhases
    /\ Len(run.all_items) = 3
    /\ Cardinality({i \in 1..Len(run.all_items) : ~run.all_items[i].ConvReadable}) = 1
    /\ Len(run.threads) = 2

\* Sent time if present, else received time, else the minimum.
EffectiveTimestamp(item) ==
    IF item.SentOn # NoTime THEN item.SentOn
    ELSE IF item.ReceivedTime # NoTime THEN item.ReceivedTime
    ELSE datetime_min

\* C18: in each of the three tools, every thread after sorting is
\* non-decreasing by effective timestamp, so its last item has the greatest
\* effective timestamp of the thread.
C18_ThreadsSortedByEffectiveTimestamp ==
    run.phase \in GroupedPhases =>
        \A k \in 1..Len(run.threads) :
            \A i, j \in 1..Len(run.threads[k]) :
                i < j => EffectiveTimestamp(run.threads[k][i])
                            <= EffectiveTimestamp(run.threads[k][j])

\* The tools that need the user's address.
UserTools ==
    {"generate_morning_briefing", "get_actionable_emails", "inbox_load_and_mood_estimator"}

\* C19: when the user's address cannot be determined, the three tools that
\* need it return an error, fetch and report nothing (no backend call after
\* the connection) and leave the cache as it was.
C19_NoUserAddressIsFatal ==
    [][(last'.tool \in UserTools /\ ~OutOfRange(last') /\ last'.my_email = None) =>
        /\ last'.result.kind = "no_user"
        /\ last'.result.text[1] = "Error:"
        /\ last'.backend = <<"connect">>
        /\ last'.reported = <<>>
        /\ email_cache' = email_cache]_vars

\* C19 witness: get_actionable_emails without a user address, refused while
\* the cache holds an earlier listing.
C19_Witness ==
    /\ last.tool = "get_actionable_emails"
    /\ last.my_email = None
    /\ last.result.kind = "no_user"
    /\ last.backend = <<"connect">>
    /\ DOMAIN email_cache # {}

\* C20: when one of the scanned items cannot be formatted, a populating tool
\* skips it and still returns its normal result for the other items.
C20_UnreadableItemSkipped ==
    (last.tool \in Populating /\ last.fmt_fail # 0) =>
        /\ last.result.kind = "ok"
        /\ \A i \in 1..Len(last.reported) : last.reported[i].id # last.fmt_fail

\* The last item of the thread a status of the briefing describes.
StatusItem(status) ==
    CHOOSE it \in {Last(run.threads[k]) : k \in 1..Len(run.threads)} :
        it.EntryID = status.id

\* C21: a thread status of the briefing carries a follow_up_suggestion
\* exactly when the thread's last item was sent by the user and the whole
\* days since that item are strictly more than follow_up_days.
C21_FollowUpWhenExceeded ==
    run.phase = "briefed" =>
        \A k \in 1..Len(run.threads_for_ai) :
            LET status == run.threads_for_ai[k]
            IN  status.follow_up_suggestion
                    <=> (/\ FromUser(StatusItem(status))
                         /\ status.days_since_last_email > run.follow_up_days)

\* C22: list_recent_emails and search_emails reject every call with days
\* greater than 30.
C22_AtMostThirtyDays ==
    (last.tool \in {"list_recent_emails", "search_emails"} /\ last.args.days > 30) =>
        last.result.kind = "validation"

\* C23: when generate_morning_briefing or get_actionable_emails returns an
\* error, the cache is empty or as it was before the call.
C23_ErrorLeavesNoPartialCache ==
    [][(/\ last'.tool \in {"generate_morning_briefing", "get_actionable_emails"}
        /\ last'.result.kind \in ErrorKinds) =>
            (email_cache' = clear_email_cache \/ email_cache' = email_cache)]_vars

\* C24: a move_email_by_number call that does not return success leaves the
\* cache as it was, and when it fails on an argument or a lookup no Move is
\* called.
C24_FailedMoveKeepsCache ==
    [][(last'.tool = "move_email_by_number" /\ last'.result.kind # "ok") =>
        /\ email_cache' = email_cache
        /\ last'.result.kind \in {"validation", "notfound"} => ~Made(last', "Move")]_vars

\* C24 witness: the backend Move raised for a cached ordinal, which is
\* still cached.
C24_Witness ==
    /\ last.tool = "move_email_by_number"
    /\ last.result.kind = "exception"
    /\ Made(last, "Move")
    /\ last.args.number \in DOMAIN email_cache

\* The tools that only read the cache or do not use it.
ReadOnlyTools ==
    {"get_email_by_number", "reply_to_email_by_number", "count_unread_emails",
     "list_folders", "compose_email", "inbox_load_and_mood_estimator"}

\* C25: a call of get_email_by_number, reply_to_email_by_number,
\* count_unread_emails, list_folders, compose_email or
\* inbox_load_and_mood_estimator leaves the cache as it was whatever it
\* returns, and every step that changes the cache is a call of a populating
\* tool or a successful move.
C25_OnlyPopulatingAndMoveWrite ==
    [][/\ last'.tool \in ReadOnlyTools => email_cache' = email_cache
       /\ email_cache' # email_cache =>
            \/ last'.tool \in Populating
            \/ last'.tool = "move_email_by_number" /\ last'.result.kind = "ok"]_vars

\* C25 witness: get_email_by_number asked the backend for a cached ordinal,
\* the backend did not resolve it, and the ordinal is still cached.
C25_Witness ==
    /\ last.tool = "get_email_by_number"
    /\ last.result.kind = "notfound"
    /\ Made(last, "GetItemFromID")
    /\ last.args.number \in DOMAIN email_cache

\* C26: in conversation_threads of the briefing, every thread whose last
\* email is unread (and not from the user) comes before every thread whose
\* last email is read or from the user, and threads of the same group are
\* in descending order of last-email timestamp.
C26_UnreadFirstThenNewest ==
    run.phase = "briefed" =>
        \A i, j \in 1..Len(run.conversation_threads) :
            LET a == run.conversation_threads[i]
                b == run.conversation_threads[j]
            IN  i < j =>
                    /\ ~(~a.is_last_email_unread /\ b.is_last_email_unread)
                    /\ a.is_last_email_unread = b.is_last_email_unread =>
                            a.last_email_timestamp >= b.last_email_timestamp

\* C27: each contribution to the load score, taken alone, equals its
\* maximum from the threshold of its code comment on: 0.5 for 3 or more
\* unread urgent emails, 0.3 for 6 or more flagged threads, 0.2 for an
\* average response delay of 24 hours or more.
C27_CapsAtCommentThresholds ==
    run.phase = "scored" =>
        /\ (/\ run.unread_urgent_count >= 3
            /\ run.flagged_threads_count = 0
            /\ run.replied_to_count = 0) => run.load_score = 50
        /\ (/\ run.flagged_threads_count >= 6
            /\ run.unread_urgent_count = 0
            /\ run.replied_to_count = 0) => run.load_score = 30
        /\ (/\ run.replied_to_count > 0
            /\ run.total_response_delay >= 24 * run.replied_to_count
            /\ run.unread_urgent_count = 0
            /\ run.flagged_threads_count = 0) => run.load_score = 20

====
